---- MODULE Spec2Model ----
(***************************************************************************)
(* SlurmWorkflowManager (utilities/SlurmWorkflowManager.py) and the        *)
(* sequential chaining of PipelineManager.create_pipeline                  *)
(* (utilities/PipelineManager.py) as a state machine.                      *)
(*                                                                         *)
(* Strings are TLA+ strings and f-strings are concatenations (\o), so an   *)
(* id "A_0a1b2c" and the bare suffix "0a1b2c" are different values.  A     *)
(* batch file's content is kept as the sequence of its lines; the file     *)
(* holds these lines joined by "\n" (no line of the model holds "\n").     *)
(* A params dict is an object on a heap and a job holds a reference to     *)
(* it, because add_job stores the caller's dict without copying it.        *)
(***************************************************************************)
EXTENDS Integers, Sequences, FiniteSets, TLC

VARIABLES
    jobs,          \* self.jobs: the list of job dicts
    workflow,      \* self.workflow: the list of generated suffixes
    heap,          \* the params dicts the jobs refer to, by reference
    files,         \* the files under batch_file_dir: path -> lines
    sbatch,        \* the commands the latest submit_* call gave to os.system
    last,          \* history: the latest call, its id argument, whether found
    fresh,         \* history: create_workflow ran and no add_job/set_* since
    containerSet   \* history: the job indexes set_singularity_params assigned

vars == <<jobs, workflow, heap, files, sbatch, last, fresh, containerSet>>

----------------------------------------------------------------------------
(* Bounds and input sets *)

MaxJobs == 2
MaxDeps == 2

Names == {"A"}
\* two of the 2^24 values of secrets.token_hex(3)
Suffixes == {"0a1b2c", "ffffff"}
Types == {"bash", "singularity"}
ScriptPaths == {"/x.sh"}

batch_file_dir == "."
logs_dir == "./logs"

----------------------------------------------------------------------------
(* Python values *)

None == [kind |-> "none"]
PyStr(s) == [kind |-> "str", s |-> s]
PyList(l) == [kind |-> "list", l |-> l]
PyInt(n) == [kind |-> "int", n |-> n]

\* a variant of Truthy that tests "is not None" instead of truth
TruthyNotNone(v) == v.kind # "none"

\* Python truth value of a dependency entry: None, "", [] and 0 are false
Truthy(v) ==
    CASE v.kind = "none" -> FALSE
      [] v.kind = "str" -> v.s # ""
      [] v.kind = "list" -> v.l # <<>>
      [] v.kind = "int" -> v.n # 0

\* sep.join(seq)
RECURSIVE Join(_, _)
Join(seq, sep) ==
    IF seq = <<>> THEN ""
    ELSE IF Len(seq) = 1 THEN seq[1]
    ELSE seq[1] \o sep \o Join(Tail(seq), sep)

EmptyDict == <<>>
\* d.get(key, default)
Get(d, key, default) == IF key \in DOMAIN d THEN d[key] ELSE default
\* d.update(other): other's keys are added or overwrite d's
Update(d, other) == other @@ d

----------------------------------------------------------------------------
(* Identity *)

\* f"{job_name}_{job_id}"
JobId(job_name, job_id) == job_name \o "_" \o job_id

\* a variant of NewJob that gives a singularity job an empty container
NewJobWithContainer(job_name, job_id, job_type, script_path, params, dependencies) ==
    [id |-> job_name \o "_" \o job_id,
     type |-> job_type,
     script_path |-> script_path,
     params |-> params,
     dependencies |-> dependencies,
     modules |-> <<>>,
     singularity |-> IF job_type = "singularity"
                     THEN [container |-> "", bind_paths |-> <<>>]
                     ELSE [kind |-> "none"]]

\* the job dict add_job builds
NewJob(job_name, job_id, job_type, script_path, params, dependencies) ==
    [id |-> JobId(job_name, job_id),
     type |-> job_type,
     script_path |-> script_path,
     params |-> params,
     dependencies |-> dependencies,
     modules |-> <<>>,
     singularity |-> None]

\* a variant of FindJob that falls through to the last job of the loop
FindJobOrLast(js, job_id) ==
    IF \E i \in 1..Len(js) : js[i].id = job_id
    THEN CHOOSE i \in 1..Len(js) :
            /\ js[i].id = job_id
            /\ \A k \in 1..(i - 1) : js[k].id # job_id
    ELSE Len(js)

\* "for job in self.jobs: if job['id'] == job_id: ...; break":
\* the index of the first job carrying job_id, 0 when none does
FindJob(js, job_id) ==
    IF \E i \in 1..Len(js) : js[i].id = job_id
    THEN CHOOSE i \in 1..Len(js) :
            /\ js[i].id = job_id
            /\ \A k \in 1..(i - 1) : js[k].id # job_id
    ELSE 0

----------------------------------------------------------------------------
(* Rendering: _create_batch_file_content *)

HeaderLines(job, params) ==
    LET log_file == logs_dir \o "/job_" \o job.id \o ".log"
    IN  << "#!/bin/bash",
           "#SBATCH --job-name=" \o job.id,
           "#SBATCH --cpus-per-task=" \o ToString(Get(params, "cpus", 1)),
           "#SBATCH --mem=" \o Get(params, "mem", "1G"),
           "#SBATCH --time=" \o Get(params, "runtime", "1:00:00"),
           "#SBATCH --partition=" \o Get(params, "partition", "defq"),
           "#SBATCH --output=" \o log_file,
           "#SBATCH --error=" \o log_file >>

DependencyStr(dep) ==
    CASE dep.kind = "list" -> Join(dep.l, ":")
      [] dep.kind = "str" -> dep.s
      [] dep.kind = "int" -> ToString(dep.n)

RECURSIVE DependencyLines(_)
DependencyLines(deps) ==
    IF deps = <<>> THEN <<>>
    ELSE (IF Truthy(Head(deps))
          THEN << "#SBATCH --dependency=afterok:" \o DependencyStr(Head(deps)) >>
          ELSE <<>>) \o DependencyLines(Tail(deps))

\* env_vars is an insertion-ordered dict: a sequence of <<var, value>>
EnvLines(params) ==
    IF "env_vars" \in DOMAIN params
    THEN [i \in 1..Len(params["env_vars"]) |->
            "export " \o params["env_vars"][i][1] \o "=" \o params["env_vars"][i][2]]
    ELSE <<>>

ModuleLines(job) ==
    [i \in 1..Len(job.modules) |-> "module load " \o job.modules[i]]

SingularityCmd(job) ==
    "singularity exec --bind " \o Join(job.singularity.bind_paths, ",")
        \o " " \o job.singularity.container \o " " \o job.script_path
MatlabCmd(job) ==
    "matlab -nodisplay -nosplash -r \"" \o job.script_path
        \o "('target_path', options_struct); exit;\""
BashCmd(job) == "bash " \o job.script_path
PythonCmd(job) == "python3 " \o job.script_path \o " command_arg1 arg2 arg3"

\* a variant of CommandLine that uses a set container whatever the type
CommandLineAnyType(job) ==
    IF job.singularity # None THEN SingularityCmd(job)
    ELSE IF job.type = "matlab" THEN MatlabCmd(job)
    ELSE IF job.type = "bash" THEN BashCmd(job)
    ELSE IF job.type = "python" THEN PythonCmd(job)
    ELSE job.script_path

\* the if/elif chain on job['type']; a set singularity dict is never empty,
\* so "and job['singularity']" is "is not None"
CommandLine(job) ==
    IF job.type = "singularity" /\ job.singularity # None THEN SingularityCmd(job)
    ELSE IF job.type = "matlab" THEN MatlabCmd(job)
    ELSE IF job.type = "bash" THEN BashCmd(job)
    ELSE IF job.type = "python" THEN PythonCmd(job)
    ELSE job.script_path

\* the lines of the batch file of job, whose params dict is params
CreateBatchFileContent(job, params) ==
    HeaderLines(job, params)
        \o DependencyLines(job.dependencies)
        \o EnvLines(params)
        \o ModuleLines(job)
        \o << CommandLine(job) >>

----------------------------------------------------------------------------
(* Files *)

\* f"{self.batch_file_dir}/job_{job_id}.slurm"
BatchFilePath(job_id) == batch_file_dir \o "/job_" \o job_id \o ".slurm"

\* a variant of WriteFile that opens the file in append mode
WriteFileAppend(fs, path, content) ==
    (path :> (IF path \in DOMAIN fs THEN fs[path] \o content ELSE content)) @@ fs

\* open(path, "w").write(content): the file is created or overwritten
WriteFile(fs, path, content) == (path :> content) @@ fs

\* generate_batch_file(job_id) on the files fs: the files afterwards
GenerateBatchFileOn(fs, js, hp, job_id) ==
    LET i == FindJob(js, job_id)
    IN  IF i = 0 THEN fs
        ELSE WriteFile(fs, BatchFilePath(job_id),
                       CreateBatchFileContent(js[i], hp[js[i].params]))

\* create_workflow: generate_batch_file(job['id']) for the jobs from k on
RECURSIVE CreateWorkflowFrom(_, _, _, _)
CreateWorkflowFrom(fs, js, hp, k) ==
    IF k > Len(js) THEN fs
    ELSE CreateWorkflowFrom(GenerateBatchFileOn(fs, js, hp, js[k].id), js, hp, k + 1)

----------------------------------------------------------------------------
(* Operations *)

\* the ids the registered jobs carry
IdsOf(js) == {js[i].id : i \in 1..Len(js)}

Call(op, id) ==
    [op |-> op,
     id |-> IF id \in IdsOf(jobs) THEN id ELSE "",
     found |-> id \in IdsOf(jobs),
     wasFresh |-> fresh]

\* arguments of the calls
ParamsArgs == {EmptyDict}
SlurmParamsArgs == {[cpus |-> 8]}
ModulesArgs == {<<"fsl/6.0.4">>}
ContainerArgs == {"/c.sif"}
BindPathsArgs == {<<"/input:/output">>}
\* the id the caller names in set_*, generate_batch_file and submit_job:
\* registered in some states, in others not
ArgIds == {JobId("A", "0a1b2c")}
\* no dependency or a null entry for the first job; later, no dependency or
\* the id add_job returned for the latest job
DependenciesArgs ==
    IF jobs = <<>> THEN {<<>>, <<None>>}
    ELSE {<<>>, <<PyStr(jobs[Len(jobs)].id)>>}

Init ==
    /\ jobs = <<>>
    /\ workflow = <<>>
    /\ heap = <<>>
    /\ files = <<>>
    /\ sbatch = <<>>
    /\ last = [op |-> "init", id |-> "", found |-> FALSE, wasFresh |-> FALSE]
    /\ fresh = FALSE
    /\ containerSet = {}

\* add_job on the registry r = [jobs, workflow, heap], with params the
\* object at ref of the heap hp
AddJobOn(r, job_name, job_id, job_type, script_path, ref, hp, dependencies) ==
    [jobs |-> Append(r.jobs, NewJob(job_name, job_id, job_type, script_path,
                                    ref, dependencies)),
     workflow |-> Append(r.workflow, job_id),
     heap |-> hp]

AddJobRef(job_name, job_id, job_type, script_path, ref, hp, dependencies) ==
    LET r == AddJobOn([jobs |-> jobs, workflow |-> workflow, heap |-> heap],
                      job_name, job_id, job_type, script_path, ref, hp,
                      dependencies)
    IN  /\ Len(jobs) < MaxJobs
        /\ jobs' = r.jobs
        /\ workflow' = r.workflow
        /\ heap' = r.heap
        /\ sbatch' = <<>>
        /\ last' = Call("add_job", "")
        /\ fresh' = FALSE
        /\ UNCHANGED <<files, containerSet>>

AddJob ==
    \E job_name \in Names, job_id \in Suffixes, job_type \in Types,
       script_path \in ScriptPaths, dependencies \in DependenciesArgs :
        \* params is a dict the registry has not seen, or one it already holds
        \/ \E params \in ParamsArgs :
              AddJobRef(job_name, job_id, job_type, script_path,
                        Len(heap) + 1, Append(heap, params), dependencies)
        \/ \E ref \in 1..Len(heap) :
              AddJobRef(job_name, job_id, job_type, script_path,
                        ref, heap, dependencies)

\* job['params'].update(params) on the first job carrying job_id
SlurmParamsSet(js, hp, job_id, params) ==
    LET i == FindJob(js, job_id)
    IN  IF i = 0 THEN hp
        ELSE [hp EXCEPT ![js[i].params] = Update(@, params)]

\* job['modules'] = modules on the first job carrying job_id
ModulesSet(js, job_id, modules) ==
    LET i == FindJob(js, job_id)
    IN  IF i = 0 THEN js ELSE [js EXCEPT ![i].modules = modules]

\* job['singularity'] = {...} on the first job carrying job_id
SingularitySet(js, job_id, container, bind_paths) ==
    LET i == FindJob(js, job_id)
    IN  IF i = 0 THEN js
        ELSE [js EXCEPT ![i].singularity =
                 [container |-> container, bind_paths |-> bind_paths]]

SetSlurmParams(job_id, params) ==
    /\ heap' = SlurmParamsSet(jobs, heap, job_id, params)
    /\ sbatch' = <<>>
    /\ last' = Call("set_slurm_params", job_id)
    /\ fresh' = FALSE
    /\ UNCHANGED <<jobs, workflow, files, containerSet>>

SetModules(job_id, modules) ==
    /\ jobs' = ModulesSet(jobs, job_id, modules)
    /\ sbatch' = <<>>
    /\ last' = Call("set_modules", job_id)
    /\ fresh' = FALSE
    /\ UNCHANGED <<workflow, heap, files, containerSet>>

SetSingularityParams(job_id, container, bind_paths) ==
    /\ jobs' = SingularitySet(jobs, job_id, container, bind_paths)
    /\ containerSet' = containerSet \cup
           {i \in 1..Len(jobs) : jobs'[i].singularity # jobs[i].singularity}
    /\ sbatch' = <<>>
    /\ last' = Call("set_singularity_params", job_id)
    /\ fresh' = FALSE
    /\ UNCHANGED <<workflow, heap, files>>

GenerateBatchFile(job_id) ==
    /\ files' = GenerateBatchFileOn(files, jobs, heap, job_id)
    /\ sbatch' = <<>>
    /\ last' = Call("generate_batch_file", job_id)
    /\ UNCHANGED <<jobs, workflow, heap, fresh, containerSet>>

CreateWorkflow ==
    /\ files' = CreateWorkflowFrom(files, jobs, heap, 1)
    /\ sbatch' = <<>>
    /\ last' = Call("create_workflow", "")
    /\ fresh' = TRUE
    /\ UNCHANGED <<jobs, workflow, heap, containerSet>>

\* os.system(f"sbatch {batch_file_path}"): the command line
SubmitCommand(job_id) == "sbatch " \o BatchFilePath(job_id)

SubmitJob(job_id) ==
    /\ sbatch' = << SubmitCommand(job_id) >>
    /\ last' = Call("submit_job", job_id)
    /\ UNCHANGED <<jobs, workflow, heap, files, fresh, containerSet>>

\* "for job_id in self.workflow: self.submit_job(job_id)"
SubmitAllJobsCommands(wf) == [i \in 1..Len(wf) |-> SubmitCommand(wf[i])]

SubmitAllJobs ==
    /\ sbatch' = SubmitAllJobsCommands(workflow)
    /\ last' = Call("submit_all_jobs", "")
    /\ UNCHANGED <<jobs, workflow, heap, files, fresh, containerSet>>

----------------------------------------------------------------------------
(* PipelineManager.create_pipeline *)

\* combined_params['jobs']: job entries with name, type and script, and
\* without slurm_params and modules keys; no default_slurm_params
PipelineJobs ==
    {[name |-> n, type |-> t, script |-> p] :
        n \in Names, t \in Types, p \in ScriptPaths}
default_values == EmptyDict

\* the loop body for the entries of js from k on; previous_job_id is prev
\* and token[k] is the suffix secrets.token_hex gives for entry k
RECURSIVE PipelineLoop(_, _, _, _, _)
PipelineLoop(r, js, token, k, prev) ==
    IF k > Len(js) THEN r
    ELSE
        LET job == js[k]
            added == AddJobOn(r, job.name, token[k], job.type, job.script,
                              Len(r.heap) + 1, Append(r.heap, EmptyDict),
                              << prev >>)
            job_id == JobId(job.name, token[k])
            slurm_params ==
                Update(Get(default_values, "default_slurm_params", EmptyDict),
                       Get(job, "slurm_params", EmptyDict))
            withParams ==
                [added EXCEPT !.heap =
                    SlurmParamsSet(added.jobs, added.heap, job_id, slurm_params)]
            withModules ==
                [withParams EXCEPT !.jobs =
                    ModulesSet(withParams.jobs, job_id, Get(job, "modules", <<>>))]
        IN  PipelineLoop(withModules, js, token, k + 1, PyStr(job_id))

CreatePipeline ==
    \E n \in 1..(MaxJobs - Len(jobs)) :
      \E js \in [1..n -> PipelineJobs], token \in [1..n -> Suffixes] :
        LET r == PipelineLoop([jobs |-> jobs, workflow |-> workflow, heap |-> heap],
                              js, token, 1, None)
        IN  /\ jobs' = r.jobs
            /\ workflow' = r.workflow
            /\ heap' = r.heap
            /\ files' = CreateWorkflowFrom(files, r.jobs, r.heap, 1)
            /\ sbatch' = <<>>
            /\ last' = Call("create_pipeline", "")
            /\ fresh' = TRUE
            /\ UNCHANGED containerSet

----------------------------------------------------------------------------

Next ==
    \/ AddJob
    \/ \E job_id \in ArgIds, params \in SlurmParamsArgs :
          SetSlurmParams(job_id, params)
    \/ \E job_id \in ArgIds, modules \in ModulesArgs :
          SetModules(job_id, modules)
    \/ \E job_id \in ArgIds, container \in ContainerArgs,
          bind_paths \in BindPathsArgs :
          SetSingularityParams(job_id, container, bind_paths)
    \/ \E job_id \in ArgIds : GenerateBatchFile(job_id)
    \/ CreateWorkflow
    \/ \E job_id \in ArgIds : SubmitJob(job_id)
    \/ SubmitAllJobs
    \/ CreatePipeline

Spec == Init /\ [][Next]_vars

----------------------------------------------------------------------------
(* Rendering one job: the registry holds one job, of any type, with any    *)
(* dependencies list, params dict and modules, and its file is rendered.   *)

AllTypes == {"singularity", "matlab", "bash", "python", "generic"}
\* dependency entries: null, strings, lists of ids and the integers of
\* test_slurm_batch.py
DepEntries ==
    {None, PyStr(""), PyStr("B_ffffff"), PyList(<<>>),
     PyList(<<"B_ffffff", "C_12ab34">>), PyInt(0), PyInt(1)}
DepLists == UNION {[1..k -> DepEntries] : k \in 0..MaxDeps}
RenderParams ==
    {EmptyDict,
     [cpus |-> 4, mem |-> "16G", runtime |-> "2:00:00", partition |-> "standard"],
     [env_vars |-> << <<"MY_VAR", "value">> >>]}
RenderModules == {<<>>, <<"fsl/6.0.4">>}

InitRender ==
    \E job_type \in AllTypes, script_path \in ScriptPaths, params \in RenderParams,
       dependencies \in DepLists, modules \in RenderModules :
        /\ jobs = ModulesSet(<< NewJob("A", "0a1b2c", job_type, script_path, 1,
                                       dependencies) >>,
                             JobId("A", "0a1b2c"), modules)
        /\ workflow = << "0a1b2c" >>
        /\ heap = << params >>
        /\ files = <<>>
        /\ sbatch = <<>>
        /\ last = [op |-> "init", id |-> "", found |-> FALSE, wasFresh |-> FALSE]
        /\ fresh = FALSE
        /\ containerSet = {}

NextRender ==
    \/ \E job_id \in ArgIds, container \in ContainerArgs,
          bind_paths \in BindPathsArgs :
          SetSingularityParams(job_id, container, bind_paths)
    \/ \E job_id \in ArgIds : GenerateBatchFile(job_id)
    \/ CreateWorkflow

SpecRender == InitRender /\ [][NextRender]_vars

----------------------------------------------------------------------------
(* Properties *)

Setters == {"set_slurm_params", "set_modules", "set_singularity_params"}

\* the job at index i with its params dict in place of the reference
JobValue(js, hp, i) == [js[i] EXCEPT !.params = hp[js[i].params]]

\* what a dependency directive line looks like: the directive prefix and a
\* dependency value of the model
DirectivePrefix == "#SBATCH --dependency=afterok:"
DependencyValues ==
    {"", "0", "1", "B_ffffff", "B_ffffff:C_12ab34"}
        \cup {JobId(n, t) : n \in Names, t \in Suffixes}
IsDependencyDirective(line) ==
    \E v \in DependencyValues : line = DirectivePrefix \o v
\* the dependency directive lines of a file, in file order
DirectivesIn(content) == SelectSeq(content, IsDependencyDirective)

\* the file create_workflow names after the job at index i
FileOf(i) == files[BatchFilePath(jobs[i].id)]

\* C1: the ids of the registered jobs are pairwise distinct.
C1_IdsPairwiseDistinct ==
    \A i, k \in 1..Len(jobs) : i # k => jobs[i].id # jobs[k].id

\* C2: after create_workflow, submit_all_jobs runs the submission command
\* once per registered job, in insertion order, the i-th on the batch file
\* path create_workflow wrote for the i-th job.
C2_SubmitsTheWrittenFiles ==
    (last.op = "submit_all_jobs" /\ fresh) =>
        sbatch = [i \in 1..Len(jobs) |-> "sbatch " \o BatchFilePath(jobs[i].id)]

\* C3: create_workflow called again with no add_job or set_* call since the
\* last create_workflow leaves the written files, their contents and the
\* registry as they were.
C3_CreateWorkflowIdempotent ==
    [][(fresh /\ last'.op = "create_workflow") =>
          (files' = files /\ jobs' = jobs /\ heap' = heap /\ workflow' = workflow)]_vars

C3_Witness ==
    /\ last.op = "create_workflow"
    /\ last.wasFresh
    /\ Len(jobs) >= 2
    /\ \E i \in 1..Len(jobs) : jobs[i].modules # <<>>
    /\ Cardinality(DOMAIN files) >= 2

\* C4: after create_workflow on N jobs there are N batch files, and the file
\* named after each job holds the rendering of that job.
C4_OneFilePerJob ==
    fresh =>
        /\ Cardinality(DOMAIN files) = Len(jobs)
        /\ \A i \in 1..Len(jobs) :
              /\ BatchFilePath(jobs[i].id) \in DOMAIN files
              /\ FileOf(i) = CreateBatchFileContent(jobs[i], heap[jobs[i].params])

\* every job depends on the id returned for the job before it, the first on
\* a null entry
Chained ==
    /\ jobs # <<>>
    /\ jobs[1].dependencies = << None >>
    /\ \A i \in 2..Len(jobs) : jobs[i].dependencies = << PyStr(jobs[i - 1].id) >>

\* C5: after create_workflow on sequentially chained jobs, the first job's
\* file has no dependency directive and every later job's file has exactly
\* one, naming the id of the job registered before it.
C5_ChainedDirectives ==
    (fresh /\ Chained) =>
        /\ DirectivesIn(FileOf(1)) = <<>>
        /\ \A i \in 2..Len(jobs) :
              DirectivesIn(FileOf(i)) = << DirectivePrefix \o jobs[i - 1].id >>

\* the text of a dependency entry: a list joined by ":", a scalar as it is
EntryText(e) ==
    IF e.kind = "list" THEN Join(e.l, ":")
    ELSE IF e.kind = "str" THEN e.s
    ELSE ToString(e.n)
DirectivesFor(entries) ==
    [i \in 1..Len(entries) |-> DirectivePrefix \o EntryText(entries[i])]
NonNull(e) == e # None
NonEmpty(e) == e \notin {None, PyStr(""), PyList(<<>>), PyInt(0)}
JustRendered == last.op \in {"generate_batch_file", "create_workflow"} /\ jobs # <<>>
                    /\ BatchFilePath(jobs[1].id) \in DOMAIN files

\* C6 as stated: the rendered file has one dependency directive for every
\* non-null entry of dependencies, in order.
C6_DirectivePerNonNullEntry ==
    JustRendered /\ (last.op = "generate_batch_file" => last.found) =>
        DirectivesIn(FileOf(1)) =
            DirectivesFor(SelectSeq(jobs[1].dependencies, NonNull))

\* C6 amended: the rendered file has one dependency directive for every
\* entry of dependencies that is neither null nor empty (not None, "", []
\* or 0), in order: a list joined by ":", a scalar as it is.
C6_DirectivePerNonEmptyEntry ==
    JustRendered /\ (last.op = "generate_batch_file" => last.found) =>
        DirectivesIn(FileOf(1)) =
            DirectivesFor(SelectSeq(jobs[1].dependencies, NonEmpty))

C6_Witness ==
    /\ JustRendered
    /\ Len(jobs[1].dependencies) = 2
    /\ jobs[1].dependencies[1].kind = "list" /\ jobs[1].dependencies[1].l # <<>>
    /\ jobs[1].dependencies[2] = None
    /\ Len(DirectivesIn(FileOf(1))) = 1

\* the command lines the templates give for the jobs of the model
IsCommandLine(line) ==
    \E p \in ScriptPaths :
        \/ line \in {p, "bash " \o p, "python3 " \o p \o " command_arg1 arg2 arg3",
                     "matlab -nodisplay -nosplash -r \"" \o p
                        \o "('target_path', options_struct); exit;\""}
        \/ \E c \in ContainerArgs, b \in BindPathsArgs :
              line = "singularity exec --bind " \o Join(b, ",") \o " " \o c \o " " \o p
IsContainerInvocation(line) ==
    \E p \in ScriptPaths, c \in ContainerArgs, b \in BindPathsArgs :
        line = "singularity exec --bind " \o Join(b, ",") \o " " \o c \o " " \o p

\* C7: the rendered file has exactly one command line, its last line: the
\* container invocation only for type singularity with a container set, the
\* matlab, bash and python templates for those types, the bare script_path
\* otherwise; a container on another type gives no container invocation.
C7_OneCommandLineByType ==
    JustRendered /\ (last.op = "generate_batch_file" => last.found) =>
        LET job == jobs[1]
            content == FileOf(1)
            cmd == content[Len(content)]
        IN  /\ \A k \in 1..(Len(content) - 1) : ~IsCommandLine(content[k])
            /\ IsCommandLine(cmd)
            /\ IsContainerInvocation(cmd) <=>
                  (job.type = "singularity" /\ job.singularity # None)
            /\ job.type = "matlab" => cmd = MatlabCmd(job)
            /\ job.type = "bash" => cmd = BashCmd(job)
            /\ job.type = "python" => cmd = PythonCmd(job)
            /\ (job.type \notin {"singularity", "matlab", "bash", "python"}
                    \/ (job.type = "singularity" /\ job.singularity = None))
                  => cmd = job.script_path

C7_Witness ==
    /\ JustRendered
    /\ jobs[1].type = "bash"
    /\ jobs[1].singularity # None
    /\ FileOf(1)[Len(FileOf(1))] = "bash /x.sh"

\* C8: set_slurm_params, set_modules, set_singularity_params and
\* generate_batch_file with an id no registered job carries leave the job
\* records, their order and the written files unchanged.
C8_LookupFailureNoOp ==
    [][(last'.op \in Setters \cup {"generate_batch_file"} /\ ~last'.found) =>
          UNCHANGED <<jobs, workflow, heap, files>>]_vars

C8_Witness ==
    /\ last.op \in Setters
    /\ ~last.found
    /\ jobs # <<>>
    /\ files # <<>>

\* C9 as stated: a job's container is set only if its type is singularity.
C9_ContainerOnlyOnSingularity ==
    \A i \in 1..Len(jobs) :
        jobs[i].singularity # None => jobs[i].type = "singularity"

\* C9 amended: a job's container is set only if set_singularity_params
\* assigned it to that job, whatever the job's type; add_job, set_modules
\* and set_slurm_params leave it unset.
C9_ContainerOnlyBySetter ==
    \A i \in 1..Len(jobs) : jobs[i].singularity # None => i \in containerSet

C9_Witness ==
    \E i \in 1..Len(jobs) :
        /\ jobs[i].singularity # None
        /\ jobs[i].type # "singularity"
        /\ \E k \in 1..Len(jobs) : jobs[k].type = "singularity" /\ jobs[k].singularity = None

\* C10: a set_* call on a registered id leaves every job with another id,
\* and the order of the jobs, unchanged.
C10_MutatorTargetsOneJob ==
    [][(last'.op \in Setters /\ last'.found) =>
          /\ Len(jobs') = Len(jobs)
          /\ \A i \in 1..Len(jobs) :
                jobs[i].id # last'.id =>
                    JobValue(jobs', heap', i) = JobValue(jobs, heap, i)]_vars

====
